---- MODULE Spec2Model ----
(***************************************************************************)
(* A model of slow.c: a pipe that copies standard input to standard output *)
(* one byte at a time, sleeping between bytes to imitate a serial line.    *)
(*                                                                         *)
(* The state is that of main(): its locals (c, delay, bps), its position   *)
(* (pc), the two stdio streams it uses (stdin with its read position and   *)
(* error indicator, stdout with its buffering mode, its pending buffer and *)
(* the bytes that have reached the file descriptor), stderr, and the exit  *)
(* status.  `events` is a history of the externally observable steps.      *)
(***************************************************************************)
EXTENDS Integers, Sequences, FiniteSets, TLC

VARIABLES
  argv,        \* the arguments after argv[0], each a sequence of characters
  input,       \* the bytes standard input will deliver
  pos,         \* how many of them fgetc has returned
  ferror,      \* the error indicator of stdin
  pc,          \* the statement main() is at
  c,           \* int c
  delay,       \* int delay
  bps,         \* int bps
  bufmode,     \* buffering mode of stdout
  obuf,        \* bytes written to stdout and still in its buffer
  stdout,      \* bytes that have reached file descriptor 1
  stderr,      \* text that has reached file descriptor 2
  exitStatus,  \* <<status>> once the process has exited, <<>> while it runs
  events       \* history: the observable steps, in order

vars == <<argv, input, pos, ferror, pc, c, delay, bps, bufmode, obuf,
          stdout, stderr, exitStatus, events>>

----------------------------------------------------------------------------
(* Bounds of the model *)

MaxInput == 2

ByteSamples == {0, 10, 65, 255}

----------------------------------------------------------------------------
(* C constants *)

EOF == -1

INT_MAX == 2147483647

INT_MIN == (-2147483647) - 1

esc == 27

DefaultBps == 960

MinBps == 10

MinDelay == 4

(* A value an uninitialised int local may hold. *)
Indeterminate == {-7, 3}

(* The results atoi may give for a number that does not fit an int         *)
(* (undefined behaviour: the library may saturate, wrap or truncate).      *)
AtoiOverflowResults == {INT_MIN, -1, 0, 9, 10, 705032704, INT_MAX}

----------------------------------------------------------------------------
(* Command lines *)

ArgSamples ==
  { <<"9","6","0">>, <<"1","0">>, <<"9">>, <<"0">>, <<"-","5">>,
    <<"a","b","c">>, <<>>, <<" ","4","2">>, <<"+","7">>, <<"1","2","x">>,
    <<"2","0","0","0","0","0">>, <<"2","5","0","0","0","0">>,
    <<"5","0","0","0","0","0">>, <<"1","0","0","0","0","0","0">>,
    <<"1","0","0","0","0","0","1">>,
    <<"2","1","4","7","4","8","3","6","4","7">>,
    <<"3","0","0","0","0","0","0","0","0","0">>,
    <<"-","2","1","4","7","4","8","3","6","4","8">> }

ArgvSamples ==
  { <<>> } \cup { <<a>> : a \in ArgSamples }
  \cup { << <<"1","0","0">>, <<"2","0","0">> >>,
         << <<"1">>, <<"2">>, <<"3">> >> }

argc == Len(argv) + 1

RECURSIVE SeqsUpTo(_, _)
SeqsUpTo(S, n) ==
  IF n = 0 THEN { <<>> }
  ELSE LET shorter == SeqsUpTo(S, n - 1)
       IN shorter \cup { Append(s, x) : s \in { t \in shorter : Len(t) = n - 1 }, x \in S }

----------------------------------------------------------------------------
(* atoi: skip white space, take an optional sign, then decimal digits up   *)
(* to the first character that is no digit.                                *)

isspace(ch) == ch \in {" ", "\t", "\n", "\r", "\f"}

isdigit(ch) == ch \in {"0","1","2","3","4","5","6","7","8","9"}

DigitVal(ch) ==
  CASE ch = "0" -> 0 [] ch = "1" -> 1 [] ch = "2" -> 2 [] ch = "3" -> 3
    [] ch = "4" -> 4 [] ch = "5" -> 5 [] ch = "6" -> 6 [] ch = "7" -> 7
    [] ch = "8" -> 8 [] ch = "9" -> 9

RECURSIVE SkipSpace(_)
SkipSpace(s) ==
  IF s # <<>> /\ isspace(Head(s)) THEN SkipSpace(Tail(s)) ELSE s

(* The digits of s accumulated as a negative number (so that INT_MIN is   *)
(* reached); 1, which no such sum is, when the number leaves the range of  *)
(* int.                                                                   *)
RECURSIVE NegDigits(_, _)
NegDigits(s, acc) ==
  IF s = <<>> \/ ~isdigit(Head(s)) THEN acc
  ELSE LET d == DigitVal(Head(s))
       IN IF acc = 1 THEN 1
          ELSE IF acc > -214748364 \/ (acc = -214748364 /\ d <= 8)
          THEN NegDigits(Tail(s), 10 * acc - d)
          ELSE 1

(* The set of values atoi(s) may return. *)
atoi(s) ==
  LET t   == SkipSpace(s)
      neg == t # <<>> /\ Head(t) = "-"
      u   == IF t # <<>> /\ Head(t) \in {"+", "-"} THEN Tail(t) ELSE t
      n   == NegDigits(u, 0)
  IN IF n = 1 THEN AtoiOverflowResults
     ELSE IF neg THEN {n}
     ELSE IF n = INT_MIN THEN AtoiOverflowResults
     ELSE {-n}

----------------------------------------------------------------------------
(* The startup computations of main() *)

(* Variant: the limit is off by one. *)
TooManyArgsOffByOne(n) == n > 3

(* if (argc > 2) usage(); *)
TooManyArgs(n) == n > 2

(* Variant: only rates that are not positive are raised. *)
ClampBpsNonPositive(v) == IF v <= 0 THEN MinBps ELSE v

(* if (bps < 10) bps = 10; *)
ClampBps(v) == IF v < MinBps THEN MinBps ELSE v

(* Variant: the quotient is rounded to the nearest integer. *)
DelayForRounded(rate) == (1000 * 1000 + rate \div 2) \div rate

(* C integer division of non-negative a by positive b truncates. *)
(* delay = 1000 * 1000 / bps; *)
DelayFor(rate) == (1000 * 1000) \div rate

(* Variant: a delay of exactly 4 microseconds sleeps too. *)
NeedSleepInclusive(d) == d >= MinDelay

(* Variant: a delay of exactly 5 microseconds does not sleep. *)
NeedSleepAboveFive(d) == d > MinDelay + 1

(* if (delay > 4) *)
NeedSleep(d) == d > MinDelay

----------------------------------------------------------------------------
(* stdio *)

Ord(ch) ==
  CASE ch = "[" -> 91 [] ch = "H" -> 72 [] ch = "J" -> 74 [] ch = ";" -> 59
    [] ch = "0" -> 48 [] ch = "2" -> 50 [] ch = "4" -> 52

(* The bytes fprintf produces for a format whose only conversion is %c:   *)
(* each %c takes the next argument, converted to unsigned char.           *)
RECURSIVE Format(_, _)
Format(fmt, args) ==
  IF fmt = <<>> THEN <<>>
  ELSE IF Head(fmt) = "%" /\ Len(fmt) >= 2 /\ fmt[2] = "c"
       THEN <<Head(args) % 256>> \o Format(Tail(Tail(fmt)), Tail(args))
       ELSE <<Ord(Head(fmt))>> \o Format(Tail(fmt), args)

(* "%c[H%c[J" *)
LeadFormat == <<"%","c","[","H","%","c","[","J">>

(* "%c[24;0H" *)
TrailFormat == <<"%","c","[","2","4",";","0","H">>

UsageText == "usage: slow [speed] < input.txt\n"

(* Variant: the byte is taken as a signed char (c declared char). *)
fgetcSignedChar(stream, p) ==
  IF p < Len(stream)
  THEN (IF stream[p + 1] > 127 THEN stream[p + 1] - 256 ELSE stream[p + 1])
  ELSE EOF

(* fgetc: the next byte as an unsigned char converted to int, EOF at the  *)
(* end of the stream.                                                     *)
fgetc(stream, p) == IF p < Len(stream) THEN stream[p + 1] ELSE EOF

(* fputc writes its argument converted to unsigned char. *)
fputc(ch) == ch % 256

Ev(kind, val) == [kind |-> kind, val |-> val]

RECURSIVE LastNewline(_)
LastNewline(s) ==
  IF s = <<>> THEN 0
  ELSE IF s[Len(s)] = 10 THEN Len(s)
  ELSE LastNewline(SubSeq(s, 1, Len(s) - 1))

(* Write `bytes` to the FILE stdout.  Unbuffered, they reach the file     *)
(* descriptor at once; line buffered, the buffer is delivered up to its   *)
(* last newline; fully buffered, they wait in the buffer.                 *)
StdoutWrite(kind, bytes) ==
  LET pending == obuf \o bytes
      nl      == LastNewline(pending)
  IN CASE bufmode = "_IONBF" ->
            /\ stdout' = stdout \o bytes
            /\ obuf' = obuf
            /\ events' = Append(events, Ev(kind, bytes))
       [] bufmode = "_IOLBF" /\ nl > 0 ->
            /\ stdout' = stdout \o SubSeq(pending, 1, nl)
            /\ obuf' = SubSeq(pending, nl + 1, Len(pending))
            /\ events' = Append(events, Ev("flush", SubSeq(pending, 1, nl)))
       [] OTHER ->
            /\ obuf' = pending
            /\ UNCHANGED <<stdout, events>>

(* Process exit: the stdio buffers are flushed and the status is set. *)
Exit(status) ==
  /\ stdout' = stdout \o obuf
  /\ obuf' = <<>>
  /\ events' = (IF obuf = <<>> THEN events ELSE Append(events, Ev("flush", obuf)))
                 \o << Ev("exit", <<status>>) >>
  /\ exitStatus' = <<status>>
  /\ pc' = "exited"

----------------------------------------------------------------------------
(* The state at the entry of main() *)

Init ==
  /\ argv \in ArgvSamples
  /\ input \in SeqsUpTo(ByteSamples, MaxInput)
  /\ pos = 0
  /\ ferror = FALSE
  /\ pc = "check_argc"
  /\ c \in Indeterminate
  /\ delay \in Indeterminate
  /\ bps = DefaultBps
  /\ bufmode \in {"_IOLBF", "_IOFBF"}
  /\ obuf = <<>>
  /\ stdout = <<>>
  /\ stderr = ""
  /\ exitStatus = <<>>
  /\ events = <<>>

----------------------------------------------------------------------------
(* The statements of main() *)

(* if (argc > 2) usage(); *)
CheckArgc ==
  /\ pc = "check_argc"
  /\ pc' = IF TooManyArgs(argc) THEN "usage" ELSE "parse"
  /\ UNCHANGED <<argv, input, pos, ferror, c, delay, bps, bufmode, obuf,
                 stdout, stderr, exitStatus, events>>

(* void usage(): fprintf(stderr, ...); exit(1); *)
usage ==
  /\ pc = "usage"
  /\ stderr' = stderr \o UsageText
  /\ Exit(1)
  /\ UNCHANGED <<argv, input, pos, ferror, c, delay, bps, bufmode>>

(* if (argc > 1) { bps = atoi(argv[1]); if (bps < 10) bps = 10; } *)
ParseRate ==
  /\ pc = "parse"
  /\ IF argc > 1
     THEN \E v \in atoi(argv[1]) :
            /\ bps' = ClampBps(v)
            /\ events' = Append(events, Ev("atoi", <<v>>))
     ELSE UNCHANGED <<bps, events>>
  /\ pc' = "delay"
  /\ UNCHANGED <<argv, input, pos, ferror, c, delay, bufmode, obuf,
                 stdout, stderr, exitStatus>>

(* delay = 1000 * 1000 / bps; *)
ComputeDelay ==
  /\ pc = "delay"
  /\ bps # 0
  /\ delay' = DelayFor(bps)
  /\ pc' = "setvbuf"
  /\ UNCHANGED <<argv, input, pos, ferror, c, bps, bufmode, obuf,
                 stdout, stderr, exitStatus, events>>

(* Variant: stdout keeps the buffering it started with. *)
SetUnbufferedOmitted ==
  /\ pc = "setvbuf"
  /\ pc' = "lead"
  /\ UNCHANGED <<argv, input, pos, ferror, c, delay, bps, bufmode, obuf,
                 stdout, stderr, exitStatus, events>>

(* setvbuf(stdout, NULL, _IONBF, 0); *)
SetUnbuffered ==
  /\ pc = "setvbuf"
  /\ bufmode' = "_IONBF"
  /\ pc' = "lead"
  /\ UNCHANGED <<argv, input, pos, ferror, c, delay, bps, obuf,
                 stdout, stderr, exitStatus, events>>

(* fprintf(stdout, "%c[H%c[J", esc, esc); *)
WriteLead ==
  /\ pc = "lead"
  /\ StdoutWrite("lead", Format(LeadFormat, <<esc, esc>>))
  /\ pc' = "read"
  /\ UNCHANGED <<argv, input, pos, ferror, c, delay, bps, bufmode,
                 stderr, exitStatus>>

(* while ((c = fgetc(stdin)) != EOF): the read succeeds or meets the end  *)
(* of the stream.                                                         *)
ReadByte ==
  /\ pc = "read"
  /\ c' = fgetc(input, pos)
  /\ IF c' # EOF
     THEN /\ pos' = pos + 1
          /\ events' = Append(events, Ev("read", <<c'>>))
          /\ pc' = "write"
     ELSE /\ pos' = pos
          /\ events' = Append(events, Ev("eof", <<>>))
          /\ pc' = "trail"
  /\ UNCHANGED <<argv, input, ferror, delay, bps, bufmode, obuf,
                 stdout, stderr, exitStatus>>

(* Variant: a failed read ends the process with status 1. *)
ReadErrorFatal ==
  /\ pc = "read"
  /\ ~ferror
  /\ ferror' = TRUE
  /\ c' = EOF
  /\ Exit(1)
  /\ UNCHANGED <<argv, input, pos, delay, bps, bufmode, stderr>>

(* while ((c = fgetc(stdin)) != EOF): the read fails; fgetc sets the      *)
(* error indicator and returns EOF.                                       *)
ReadError ==
  /\ pc = "read"
  /\ ~ferror
  /\ ferror' = TRUE
  /\ c' = EOF
  /\ events' = Append(events, Ev("error", <<>>))
  /\ pc' = IF c' # EOF THEN "write" ELSE "trail"
  /\ UNCHANGED <<argv, input, pos, delay, bps, bufmode, obuf,
                 stdout, stderr, exitStatus>>

(* fputc(c, stdout); *)
WriteByte ==
  /\ pc = "write"
  /\ StdoutWrite("byte", <<fputc(c)>>)
  /\ pc' = "pace"
  /\ UNCHANGED <<argv, input, pos, ferror, c, delay, bps, bufmode,
                 stderr, exitStatus>>

(* Variant: the screen is homed and cleared again after every byte. *)
PaceThenLead ==
  /\ pc = "pace"
  /\ IF NeedSleep(delay)
     THEN /\ events' = Append(events, Ev("sleep", <<delay>>))
          /\ pc' = "sleeping"
     ELSE /\ events' = events
          /\ pc' = "lead"
  /\ UNCHANGED <<argv, input, pos, ferror, c, delay, bps, bufmode, obuf,
                 stdout, stderr, exitStatus>>

(* if (delay > 4) usleep(delay);  -- the call *)
Pace ==
  /\ pc = "pace"
  /\ IF NeedSleep(delay)
     THEN /\ events' = Append(events, Ev("sleep", <<delay>>))
          /\ pc' = "sleeping"
     ELSE /\ events' = events
          /\ pc' = "read"
  /\ UNCHANGED <<argv, input, pos, ferror, c, delay, bps, bufmode, obuf,
                 stdout, stderr, exitStatus>>

(* usleep(delay) returns *)
UsleepReturn ==
  /\ pc = "sleeping"
  /\ events' = Append(events, Ev("wake", <<delay>>))
  /\ pc' = "read"
  /\ UNCHANGED <<argv, input, pos, ferror, c, delay, bps, bufmode, obuf,
                 stdout, stderr, exitStatus>>

(* fprintf(stdout, "%c[24;0H", esc); *)
WriteTrail ==
  /\ pc = "trail"
  /\ StdoutWrite("trail", Format(TrailFormat, <<esc>>))
  /\ pc' = "return"
  /\ UNCHANGED <<argv, input, pos, ferror, c, delay, bps, bufmode,
                 stderr, exitStatus>>

(* Variant: main returns 1. *)
ReturnOne ==
  /\ pc = "return"
  /\ Exit(1)
  /\ UNCHANGED <<argv, input, pos, ferror, c, delay, bps, bufmode, stderr>>

(* return 0; *)
Return ==
  /\ pc = "return"
  /\ Exit(0)
  /\ UNCHANGED <<argv, input, pos, ferror, c, delay, bps, bufmode, stderr>>

Next ==
  \/ CheckArgc
  \/ usage
  \/ ParseRate
  \/ ComputeDelay
  \/ SetUnbuffered
  \/ WriteLead
  \/ ReadByte
  \/ ReadError
  \/ WriteByte
  \/ Pace
  \/ UsleepReturn
  \/ WriteTrail
  \/ Return

Spec == Init /\ [][Next]_vars

(* Every statement of the single thread completes, and usleep returns. *)
FairSpec == Spec /\ WF_vars(Next)

----------------------------------------------------------------------------
(* Vocabulary of the properties *)

(* ESC [ H ESC [ J *)
LeadBytes == <<27, 91, 72, 27, 91, 74>>

(* ESC [ 2 4 ; 0 H *)
TrailBytes == <<27, 91, 50, 52, 59, 48, 72>>

Kinds(k) == { i \in DOMAIN events : events[i].kind = k }

Count(k) == Cardinality(Kinds(k))

CountBefore(k, i) == Cardinality({ j \in Kinds(k) : j < i })

CountAfter(k, i) == Cardinality({ j \in Kinds(k) : j > i })

Accepted == argc <= 2

ExitedOk == pc = "exited" /\ exitStatus = <<0>>

(* main() is past the assignment to delay *)
DelayComputed ==
  pc \in {"setvbuf", "lead", "read", "write", "pace", "sleeping", "trail", "return"}
  \/ ExitedOk

(* the truncated quotient 1,000,000 / rate, for the rate in use *)
Quotient == 1000000 \div bps

(* the last lead or byte event before event i, 0 if there is none *)
PrevOut(i) ==
  LET outs == { j \in Kinds("lead") \cup Kinds("byte") : j < i }
  IN IF outs = {} THEN 0 ELSE CHOOSE j \in outs : \A k \in outs : k <= j

----------------------------------------------------------------------------
(* C1: when an accepted run exits without a read error, standard output   *)
(* is exactly ESC[H ESC[J, then the input bytes unchanged and in order,   *)
(* then ESC[24;0H; no byte (0x00 and 0xFF included) is dropped, altered   *)
(* or taken for the end of the stream.                                    *)
C1_OutputIsFramedInput ==
  (ExitedOk /\ ~ferror) =>
     /\ stdout = LeadBytes \o input \o TrailBytes
     /\ pos = Len(input)
     /\ obuf = <<>>

C1_Witness ==
  /\ ExitedOk /\ ~ferror
  /\ argc = 2
  /\ input = <<255, 0>>
  /\ stdout = LeadBytes \o <<255, 0>> \o TrailBytes

(* C2: with two or more arguments the run writes the usage line to         *)
(* standard error and exits with status 1; nothing is written to standard *)
(* output, nothing is read from standard input, and nothing sleeps.       *)
C2_UsageError ==
  (argc > 2) =>
     /\ pc \in {"check_argc", "usage", "exited"}
     /\ stdout = <<>> /\ obuf = <<>>
     /\ pos = 0
     /\ Count("lead") + Count("byte") + Count("trail") + Count("flush") = 0
     /\ Count("read") + Count("eof") + Count("error") = 0
     /\ Count("sleep") = 0
     /\ (pc = "exited" =>
           /\ stderr = "usage: slow [speed] < input.txt\n"
           /\ exitStatus = <<1>>)
     /\ (pc # "exited" => stderr = "" /\ exitStatus = <<>>)

C2_Witness ==
  /\ argc = 3
  /\ input # <<>>
  /\ pc = "exited"
  /\ exitStatus = <<1>>
  /\ stderr # ""

(* C3: a supplied rate whose parsed value is below 10 (0 from text that   *)
(* is no number, negative values) gives the rate 10, and the rate is at   *)
(* least 10 whenever the delay is computed, so the division never divides *)
(* by zero.                                                               *)
C3_RateAtLeastTen ==
  /\ bps >= 10
  /\ \A i \in Kinds("atoi") : events[i].val[1] < 10 => bps = 10
  /\ (pc = "delay" /\ argc = 1) => bps = 960

C3_Witness ==
  /\ pc = "delay"
  /\ argv = << <<"a", "b", "c">> >>
  /\ Count("atoi") = 1
  /\ events[1] = [kind |-> "atoi", val |-> <<0>>]
  /\ bps = 10

(* C4: once computed, delay is the truncated quotient 1,000,000 / rate    *)
(* (1041 for the default rate 960, 100000 for rate 10, 0 for any rate     *)
(* above 1,000,000), lies in 0..100000, and never changes afterwards.     *)
C4_DelayValue ==
  DelayComputed =>
     /\ delay * bps <= 1000000
     /\ 1000000 < (delay + 1) * bps
     /\ delay >= 0 /\ delay <= 100000
     /\ (argc = 1 => bps = 960 /\ delay = 1041)
     /\ (bps = 10 => delay = 100000)
     /\ (bps > 1000000 => delay = 0)

C4_Delay ==
  /\ []C4_DelayValue
  /\ [][DelayComputed => (delay' = delay /\ bps' = bps)]_vars

C4_Witness ==
  /\ pc = "sleeping"
  /\ argc = 1
  /\ pos = 2
  /\ delay = 1041

(* C5: in an accepted run the leading sequence is written once, before    *)
(* any input byte is read or written, and the trailing sequence once,     *)
(* after the end of the stream was seen and every byte read was written;  *)
(* neither is written inside the copy loop, whatever the input length.    *)
C5_FramingOnce ==
  /\ Count("lead") <= 1 /\ Count("trail") <= 1
  /\ pc \in {"check_argc", "usage", "parse", "delay", "setvbuf", "lead"} =>
        /\ Count("lead") = 0 /\ Count("trail") = 0
        /\ Count("read") + Count("eof") + Count("error") + Count("byte") = 0
        /\ pos = 0
  /\ pc \in {"read", "write", "pace", "sleeping", "trail"} =>
        Count("lead") = 1 /\ Count("trail") = 0
  /\ (pc = "return" \/ ExitedOk) => Count("lead") = 1 /\ Count("trail") = 1
  /\ \A i \in Kinds("lead") :
        /\ events[i].val = LeadBytes
        /\ CountBefore("read", i) + CountBefore("eof", i) + CountBefore("error", i) = 0
        /\ CountBefore("byte", i) = 0
  /\ \A i \in Kinds("trail") :
        /\ events[i].val = TrailBytes
        /\ CountBefore("eof", i) + CountBefore("error", i) = 1
        /\ CountBefore("byte", i) = CountBefore("read", i)
        /\ CountAfter("read", i) + CountAfter("byte", i) = 0
        /\ (~ferror => CountBefore("byte", i) = Len(input))

C5_Witness ==
  /\ ExitedOk
  /\ argc = 1
  /\ input = <<>>
  /\ stdout = LeadBytes \o TrailBytes
  /\ Count("lead") = 1 /\ Count("trail") = 1

(* C6: with d the truncated quotient 1,000,000 / rate, a run that copies  *)
(* L bytes requests exactly L suspensions of d microseconds each when     *)
(* d > 4, and none when d <= 4; d = 5 (rate 200000) suspends, d = 4 (rate *)
(* 250000) and d = 2 (rate 500000) do not.                                *)
C6_Suspensions ==
  /\ DelayComputed =>
        /\ Count("sleep") <= Count("read")
        /\ \A i \in Kinds("sleep") : events[i].val = <<Quotient>>
        /\ (Quotient <= 4 => Count("sleep") = 0)
  /\ ExitedOk =>
        /\ (~ferror => Count("read") = Len(input))
        /\ (Quotient > 4 => Count("sleep") = Count("read"))
        /\ (bps = 200000 => Count("sleep") = Count("read"))
        /\ (bps \in {250000, 500000} => Count("sleep") = 0)

C6_Witness ==
  /\ ExitedOk /\ ~ferror
  /\ bps = 200000
  /\ Len(input) = 2
  /\ Count("sleep") = 2
  /\ \A i \in Kinds("sleep") : events[i].val = <<5>>

(* C7: every accepted run on a finite input, each suspension returning,   *)
(* reaches the end of the stream, writes the trailing sequence and exits  *)
(* with status 0; status 0 is never reached before the trailing sequence  *)
(* has been written.                                                      *)
C7_Terminates ==
  /\ [](ExitedOk =>
          /\ Count("trail") = 1
          /\ Count("eof") + Count("error") = 1
          /\ Len(stdout) >= Len(TrailBytes)
          /\ SubSeq(stdout, Len(stdout) - Len(TrailBytes) + 1, Len(stdout)) = TrailBytes)
  /\ (Accepted ~> ExitedOk)

C7_Witness ==
  /\ ExitedOk
  /\ Len(input) >= 2
  /\ Count("wake") = Len(input)
  /\ Count("eof") = 1

(* C8: a byte is read only when every byte read before it has been        *)
(* written to the output and, when delay > 4, its suspension has          *)
(* returned; at most one byte is read and not yet written, and never more *)
(* bytes are written than were read.                                      *)
C8_NoReadAhead ==
  /\ Count("byte") <= Count("read")
  /\ Count("read") - Count("byte") <= 1
  /\ Len(stdout) <= Len(LeadBytes) + Count("read") + Len(TrailBytes)
  /\ \A i \in Kinds("read") :
        /\ CountBefore("byte", i) = CountBefore("read", i)
        /\ (Quotient > 4 =>
              /\ CountBefore("sleep", i) = CountBefore("read", i)
              /\ CountBefore("wake", i) = CountBefore("read", i))

C8_Witness ==
  /\ pc = "write"
  /\ pos = 2
  /\ Count("read") = 2
  /\ Count("byte") = 1
  /\ Count("wake") = 1

(* C9 as stated: when delay > 4, every input byte, the first included, is *)
(* written after a suspension of delay microseconds that follows the      *)
(* previous output event.                                                 *)
C9_DelayBeforeEveryByte ==
  (Quotient > 4) =>
     \A i \in Kinds("byte") :
        \E j \in Kinds("sleep") :
           /\ PrevOut(i) < j /\ j < i
           /\ events[j].val = <<Quotient>>

(* C9 as amended: when delay > 4, every input byte written is followed by *)
(* a suspension of delay microseconds that returns before the next byte   *)
(* is read or the trailing sequence is written; so every byte but the     *)
(* first is written after the suspension that follows the byte before it, *)
(* and the first byte is written with no suspension before it.            *)
C9_DelayAfterEveryByte ==
  (Quotient > 4) =>
     /\ \A i \in Kinds("byte") :
           /\ (i < Len(events) => events[i + 1] = [kind |-> "sleep", val |-> <<Quotient>>])
           /\ (i + 1 < Len(events) => events[i + 2] = [kind |-> "wake", val |-> <<Quotient>>])
           /\ (CountBefore("byte", i) = 0 => CountBefore("sleep", i) = 0)
           /\ (CountBefore("byte", i) > 0 =>
                 \E j \in Kinds("sleep") :
                    /\ PrevOut(i) < j /\ j < i
                    /\ events[j].val = <<Quotient>>)
     /\ (pc \in {"read", "write", "trail", "return", "exited"} =>
           Count("wake") = Count("byte"))

C9_Witness ==
  /\ ExitedOk
  /\ Quotient > 4
  /\ Count("byte") = 2
  /\ Count("sleep") = 2
  /\ Count("wake") = 2

(* C10: a read that fails after k bytes were read is handled as the end   *)
(* of the stream: what was written stays, the input part of the output is *)
(* the first k input bytes, no further byte is read or written, and the   *)
(* run writes the trailing sequence and exits with status 0.              *)
C10_ReadErrorIsEof ==
  ferror =>
     /\ pc \in {"trail", "return", "exited"}
     /\ Count("error") = 1 /\ Count("eof") = 0
     /\ \A i \in Kinds("error") :
           CountAfter("read", i) + CountAfter("byte", i) + CountAfter("sleep", i) = 0
     /\ Count("read") = pos /\ Count("byte") = pos
     /\ Len(stdout) >= Len(LeadBytes) + pos
     /\ SubSeq(stdout, 1, Len(LeadBytes) + pos) = LeadBytes \o SubSeq(input, 1, pos)
     /\ (pc = "trail" => stdout = LeadBytes \o SubSeq(input, 1, pos))
     /\ (pc \in {"return", "exited"} =>
           stdout = LeadBytes \o SubSeq(input, 1, pos) \o TrailBytes)
     /\ (pc = "exited" => exitStatus = <<0>>)

C10_Witness ==
  /\ pc = "exited"
  /\ exitStatus = <<0>>
  /\ ferror
  /\ pos = 1
  /\ Len(input) = 2
  /\ stdout = LeadBytes \o <<input[1]>> \o TrailBytes

====
